---- MODULE Spec2Model ----
(***************************************************************************)
(* Request routing, credential rotation and streaming engine of            *)
(* unified-server.js (RequestHandler, ConnectionRegistry, MessageQueue,    *)
(* BrowserManager as seen by the handler), as a state machine.             *)
(*                                                                         *)
(* Node runs every segment of code between two awaits atomically, so each  *)
(* action is one such segment: from the event that resumes a handler (an   *)
(* HTTP request, a relay frame handed to a dequeue, a timer, the end of a  *)
(* browser operation) up to the next await or the end of the handler.      *)
(* The handlers are written as operators from a state record to a state    *)
(* record, composed in the order of the statements of the source.          *)
(***************************************************************************)
EXTENDS Integers, Sequences, FiniteSets, TLC

\* ---------------------------------------------------------------- bounds
MaxReqs == 2          \* concurrent HTTP requests (response objects alive)
MaxChunks == 2        \* chunk events the relay sends for one response
MaxAttempts == 2      \* largest config.maxRetries tried
MaxCount == 3         \* cap of usageCount and failureCount
MaxConns == 2         \* relay sockets connected at a time
MaxWaiters == 4       \* dequeue calls on a MessageQueue taken on its own
MaxEnqueues == 2      \* enqueue calls on it
switchOnUses == 2     \* config.switchOnUses, scaled down from 40
failureThreshold == 2 \* config.failureThreshold, scaled down from 3

Reqs == 1..MaxReqs
availableIndices == <<1, 2>>
immediateSwitchStatusCodes == {429, 503}

\* ------------------------------------------------------------- variables
VARIABLES
  activeRequestCount, usageCount, failureCount,
  pendingSwitch, isAuthSwitching, isSystemBusy,
  currentAuthIndex,
  connections, reconnectGraceTimer, messageQueues,
  streamingMode, maxRetries,
  switchOp, req, res, relay, hist,
  mq            \* a MessageQueue on its own, its dequeue calls told apart

serverVars == <<activeRequestCount, usageCount, failureCount, pendingSwitch,
                isAuthSwitching, isSystemBusy, currentAuthIndex, connections,
                reconnectGraceTimer, messageQueues, streamingMode, maxRetries,
                switchOp, req, res, relay, hist>>

vars == <<serverVars, mq>>

\* The state as one record, so that the handlers compose as functions.
State ==
  [activeRequestCount |-> activeRequestCount, usageCount |-> usageCount,
   failureCount |-> failureCount, pendingSwitch |-> pendingSwitch,
   isAuthSwitching |-> isAuthSwitching, isSystemBusy |-> isSystemBusy,
   currentAuthIndex |-> currentAuthIndex, connections |-> connections,
   reconnectGraceTimer |-> reconnectGraceTimer,
   messageQueues |-> messageQueues, streamingMode |-> streamingMode,
   maxRetries |-> maxRetries, switchOp |-> switchOp, req |-> req,
   res |-> res, relay |-> relay, hist |-> hist]

\* The step's effect s on every variable.  hist is history only: besides what
\* the handlers record in it, the requests that are in flight when another
\* request sets pendingSwitch are marked "early".
Commit(s) ==
  /\ activeRequestCount' = s.activeRequestCount
  /\ usageCount' = s.usageCount
  /\ failureCount' = s.failureCount
  /\ pendingSwitch' = s.pendingSwitch
  /\ isAuthSwitching' = s.isAuthSwitching
  /\ isSystemBusy' = s.isSystemBusy
  /\ currentAuthIndex' = s.currentAuthIndex
  /\ connections' = s.connections
  /\ reconnectGraceTimer' = s.reconnectGraceTimer
  /\ messageQueues' = s.messageQueues
  /\ streamingMode' = s.streamingMode
  /\ maxRetries' = s.maxRetries
  /\ switchOp' = s.switchOp
  /\ req' = s.req
  /\ res' = s.res
  /\ relay' = s.relay
  /\ hist' = [r \in DOMAIN s.hist |->
               IF /\ ~pendingSwitch /\ s.pendingSwitch
                  /\ req[r].pc \notin {"idle", "done"} /\ s.req[r] = req[r]
               THEN [s.hist[r] EXCEPT !.early = TRUE]
               ELSE s.hist[r]]
  /\ mq' = mq

\* ------------------------------------------------------------ data shapes
\* A relay event as _routeMessage enqueues it (stream_close becomes STREAM_END).
Msg(t, st, d, m) == [event_type |-> t, status |-> st, data |-> d, message |-> m]
StreamEnd == Msg("STREAM_END", 0, "", "")
TimeoutError == Msg("error", 504, "", "Timeout")
NoError == [status |-> 0, message |-> ""]

\* The messages given to a MessageQueue on its own.
QueueMessages == {"m1", "m2"}

\* The data of the i-th chunk of a response.
ChunkData(i) == IF i = 1 THEN "c1" ELSE IF i = 2 THEN "c2" ELSE "c3"

NoQueue == [state |-> "none", messages |-> <<>>, abandoned |-> 0]
IdleReq == [pc |-> "idle", kind |-> "none", gen |-> FALSE, attempt |-> 0,
            err |-> NoError, data |-> "", idx |-> 0]
FreshRes == [statusCode |-> 200, headersSent |-> FALSE, sentStatus |-> 0,
             writableEnded |-> FALSE, closed |-> FALSE, starts |-> 0,
             body |-> <<>>]
IdleRelay == [phase |-> "idle", sent |-> 0, cancelled |-> FALSE]
NoHist == [accepted |-> FALSE, forwarded |-> 0, cancels |-> 0,
           delivered |-> <<>>, aborted |-> FALSE, early |-> FALSE,
           keys |-> <<>>]
NoSwitch == [phase |-> "idle", by |-> "none", r |-> 0, prev |-> 0, target |-> 0]

\* ------------------------------------------------- the HTTP response (res)
\* The status line and headers go out with the first write, end or send.
flushHead(rs) ==
  IF rs.headersSent THEN rs
  ELSE [rs EXCEPT !.headersSent = TRUE, !.sentStatus = rs.statusCode,
                  !.starts = @ + 1]

resStatus(s, r, code) == [s EXCEPT !.res[r].statusCode = code]

\* Faulty variant: a write that puts the data on the wire twice.
resWrite_Twice(s, r, data) ==
  IF s.res[r].writableEnded THEN s
  ELSE [s EXCEPT !.res[r] = [flushHead(@) EXCEPT !.body = Append(Append(@, data), data)]]

resWrite(s, r, data) ==
  IF s.res[r].writableEnded THEN s
  ELSE [s EXCEPT !.res[r] = [flushHead(@) EXCEPT !.body = Append(@, data)]]

resEnd(s, r) ==
  IF s.res[r].writableEnded THEN s
  ELSE [s EXCEPT !.res[r] = [flushHead(@) EXCEPT !.writableEnded = TRUE]]

\* res.status(code).json(..) / .send(..): sets the status, writes the head and
\* the body and ends the response.  Called with the head already out it would
\* start the response a second time; the count of starts records it.
resSend(s, r, code) ==
  [s EXCEPT !.res[r] = [@ EXCEPT !.statusCode = code, !.headersSent = TRUE,
                                 !.sentStatus = code, !.starts = @ + 1,
                                 !.writableEnded = TRUE,
                                 !.body = Append(@, "json")]]

\* Faulty variant: _sendErrorResponse without its headersSent guard.
sendErrorResponse_Unguarded(s, r, status) ==
  resSend(s, r, IF status = 0 THEN 500 ELSE status)

sendErrorResponse(s, r, status) ==
  IF ~s.res[r].headersSent
  THEN resSend(s, r, IF status = 0 THEN 500 ELSE status)
  ELSE s

sendErrorChunkToClient(s, r) ==
  IF ~s.res[r].writableEnded THEN resWrite(s, r, "error") ELSE s

\* error.message.includes("Timeout"), case-sensitive: of the errors that reach
\* _handleRequestError ("Queue timeout", "Queue closed", "Queue is closed",
\* "No available browser connection.", a JSON parse error) none includes it.
IncludesTimeout(message) == message \in {"Timeout"}

handleRequestError(s, r, message) ==
  IF s.res[r].headersSent
  THEN resEnd(s, r)
  ELSE sendErrorResponse(s, r, IF IncludesTimeout(message) THEN 504 ELSE 500)

\* ------------------------------------------ MessageQueue, ConnectionRegistry
\* enqueue: dropped when the queue is closed or not in the registry; handed to
\* the oldest waiting resolver when there is one.  The resolvers counted in
\* "abandoned" are dequeue calls whose caller no longer listens (the dequeue
\* that lost the race against the attempt timer); they are older than the
\* handler's own pending dequeue, so they are served first and the message is
\* lost.
enqueue(s, r, m) ==
  LET q == s.messageQueues[r] IN
  IF q.state # "open" THEN s
  ELSE IF q.abandoned > 0
       THEN [s EXCEPT !.messageQueues[r].abandoned = @ - 1]
       ELSE [s EXCEPT !.messageQueues[r].messages = Append(@, m)]

\* A frame received on the relay connection: its text parses as JSON or not;
\* request_id 0 is a frame without request_id, and an id outside Reqs one that
\* no request of the server has.
Frame(id, m) ==
  [parses |-> TRUE, request_id |-> id, event_type |-> m.event_type,
   status |-> m.status, data |-> m.data, message |-> m.message]

\* _routeMessage (lines 561-575) to the queue of id r.
routeMessage(s, r, f) ==
  CASE f.event_type \in {"response_headers", "chunk", "error"} ->
         enqueue(s, r, Msg(f.event_type, f.status, f.data, f.message))
    [] f.event_type = "stream_close" -> enqueue(s, r, StreamEnd)
    [] OTHER -> s

\* Faulty variant: the event goes to every queue of the registry.
handleIncomingMessage_Broadcast(s, f) ==
  IF ~f.parses \/ f.request_id = 0 THEN s
  ELSE LET RECURSIVE toAll(_, _)
           toAll(t, R) == IF R = {} THEN t
                          ELSE LET r == CHOOSE x \in R : TRUE
                               IN toAll(IF t.messageQueues[r].state = "open"
                                        THEN routeMessage(t, r, f) ELSE t, R \ {r})
       IN toAll(s, Reqs)

\* _handleIncomingMessage (lines 546-559) for the frame f.
handleIncomingMessage(s, f) ==
  IF ~f.parses \/ f.request_id = 0 THEN s
  ELSE IF f.request_id \in Reqs /\ s.messageQueues[f.request_id].state = "open"
       THEN routeMessage(s, f.request_id, f)
       ELSE s

\* ------------------------------------------------ the MessageQueue class
\* The class with every dequeue call w told apart: waitingResolvers holds the
\* calls that wait, timers the calls whose setTimeout is neither fired nor
\* cleared, and calls[w] what was passed to the resolve and reject of w, in
\* order (a message, or the text of the Error).
NewMessageQueue ==
  [messages |-> <<>>, waitingResolvers |-> <<>>, closed |-> FALSE,
   timers |-> {}, calls |-> [w \in 1..MaxWaiters |-> <<>>],
   issued |-> 0, enqueued |-> 0]

Without(seq, w) == SelectSeq(seq, LAMBDA x : x # w)
Has(seq, w) == \E i \in 1..Len(seq) : seq[i] = w

\* enqueue (lines 456-464).
mqEnqueue(q, m) ==
  IF q.closed THEN q
  ELSE IF q.waitingResolvers # <<>>
       THEN LET w == Head(q.waitingResolvers) IN
            [q EXCEPT !.waitingResolvers = Tail(@), !.calls[w] = Append(@, m)]
       ELSE [q EXCEPT !.messages = Append(@, m)]

\* dequeue (lines 465-484), called as w.
mqDequeue(q, w) ==
  IF q.closed THEN [q EXCEPT !.calls[w] = Append(@, "Queue is closed")]
  ELSE IF q.messages # <<>>
       THEN [q EXCEPT !.messages = Tail(@), !.calls[w] = Append(@, Head(q.messages))]
       ELSE [q EXCEPT !.waitingResolvers = Append(@, w), !.timers = @ \cup {w}]

\* The setTimeout callback of the dequeue w (lines 475-481).
mqTimerFires(q, w) ==
  IF Has(q.waitingResolvers, w)
  THEN [q EXCEPT !.timers = @ \ {w}, !.waitingResolvers = Without(@, w),
                 !.calls[w] = Append(@, "Queue timeout")]
  ELSE [q EXCEPT !.timers = @ \ {w}]

\* Faulty variant: close that rejects the waiters and leaves them, with their
\* timers, in place.
mqClose_KeepsTimers(q) ==
  [q EXCEPT !.closed = TRUE,
            !.calls = [w \in DOMAIN @ |->
                         IF Has(q.waitingResolvers, w)
                         THEN Append(@[w], "Queue closed") ELSE @[w]],
            !.messages = <<>>]

\* close (lines 485-494).
mqClose(q) ==
  [q EXCEPT !.closed = TRUE,
            !.timers = {w \in @ : ~Has(q.waitingResolvers, w)},
            !.calls = [w \in DOMAIN @ |->
                         IF Has(q.waitingResolvers, w)
                         THEN Append(@[w], "Queue closed") ELSE @[w]],
            !.waitingResolvers = <<>>,
            !.messages = <<>>]

createMessageQueue(s, r) ==
  [s EXCEPT !.messageQueues[r] = [NoQueue EXCEPT !.state = "open"]]

\* Faulty variant: a removal that empties the whole registry.
removeMessageQueue_ClearsAll(s, r) ==
  IF s.messageQueues[r].state = "open"
  THEN [s EXCEPT !.messageQueues = [q \in Reqs |-> NoQueue]]
  ELSE s

removeMessageQueue(s, r) ==
  IF s.messageQueues[r].state = "open"
  THEN [s EXCEPT !.messageQueues[r] = NoQueue]
  ELSE s

hasActiveConnections(s) == s.connections > 0

\* _forwardRequest when a connection exists: one Relay Request frame is sent
\* and the relay starts on it.
forwardRequest(s, r) ==
  [s EXCEPT !.hist[r].forwarded = @ + 1,
            !.relay[r] = [IdleRelay EXCEPT !.phase = "pending"]]

cancelBrowserRequest(s, r) ==
  IF hasActiveConnections(s)
  THEN [s EXCEPT !.hist[r].cancels = @ + 1,
                 !.relay[r].cancelled = (s.relay[r].phase \in {"pending", "streaming"})]
  ELSE s

\* ------------------------------------------------------------ BrowserManager
\* launchOrSwitchContext up to its first await on the page: the previous
\* context is closed, which closes the page's relay socket and drops what the
\* relay was doing; _removeConnection starts the grace timer.
beginLaunch(s) ==
  [s EXCEPT !.connections = 0,
            !.reconnectGraceTimer = (@ \/ s.connections > 0),
            !.relay = [r \in Reqs |-> IdleRelay]]

\* launchOrSwitchContext returned: line 379.
launchSucceeded(s, index) == [s EXCEPT !.currentAuthIndex = index]

\* launchOrSwitchContext threw (lines 381-389): currentAuthIndex is left as it
\* was.
launchFailed(s) == s

\* ------------------------------------------------------- rotation controller
IndexOf(seq, x) ==
  IF \E i \in 1..Len(seq) : seq[i] = x
  THEN CHOOSE i \in 1..Len(seq) : seq[i] = x /\ \A j \in 1..(i - 1) : seq[j] # x
  ELSE 0

\* The sort of _discoverAvailableIndices (line 77) over the set of the
\* indices found.
RECURSIVE sortAscending(_)
sortAscending(S) ==
  IF S = {} THEN <<>>
  ELSE LET m == CHOOSE x \in S : \A y \in S : x <= y
       IN <<m>> \o sortAscending(S \ {m})

\* _discoverAvailableIndices (lines 47-84): the indices found in the
\* environment or in auth/, in the order found, without duplicates and sorted.
discoverAvailableIndices(indices) ==
  sortAscending({indices[i] : i \in 1..Len(indices)})

\* Faulty variant: the last index is followed by itself.
nextAuthIndexIn_NoWrap(available, current) ==
  LET i == IndexOf(available, current) IN
  IF available = <<>> THEN 0
  ELSE IF i = 0 THEN available[1]
  ELSE IF i = Len(available) THEN available[i] ELSE available[i + 1]

\* _getNextAuthIndex (lines 630-640) over the list available; 0 is null.
nextAuthIndexIn(available, current) ==
  LET i == IndexOf(available, current) IN
  IF available = <<>> THEN 0
  ELSE IF i = 0 THEN available[1]
  ELSE available[(i % Len(available)) + 1]

getNextAuthIndex(s) == nextAuthIndexIn(availableIndices, s.currentAuthIndex)

\* _switchToNextAuth up to the await of switchAccount; the caller has checked
\* isAuthSwitching.  "by" and "r" say whose continuation runs at the end.
switchToNextAuth(s, by, r) ==
  beginLaunch([s EXCEPT !.isSystemBusy = TRUE, !.isAuthSwitching = TRUE,
                        !.switchOp = [phase |-> "switch", by |-> by, r |-> r,
                                      prev |-> s.currentAuthIndex,
                                      target |-> getNextAuthIndex(s)]])

switchToSpecificAuth_NoValidation(s, targetIndex) ==
  beginLaunch([s EXCEPT !.isSystemBusy = TRUE, !.isAuthSwitching = TRUE,
                        !.switchOp = [phase |-> "switch", by |-> "specific",
                                      r |-> 0, prev |-> s.currentAuthIndex,
                                      target |-> targetIndex]])

\* _switchToSpecificAuth up to its await (lines 694-704): a targetIndex that
\* is not in availableIndices returns "Invalid index" before anything is set.
switchToSpecificAuth(s, targetIndex) ==
  IF IndexOf(availableIndices, targetIndex) = 0
  THEN s
  ELSE beginLaunch([s EXCEPT !.isSystemBusy = TRUE, !.isAuthSwitching = TRUE,
                             !.switchOp = [phase |-> "switch", by |-> "specific",
                                           r |-> 0, prev |-> s.currentAuthIndex,
                                           target |-> targetIndex]])

tryExecutePendingSwitch(s) ==
  IF s.pendingSwitch /\ s.activeRequestCount = 0 /\ ~s.isAuthSwitching
  THEN switchToNextAuth(s, "deferred", 0)
  ELSE s

\* ------------------------------------------------------------- finalisation
\* The handler has returned: its locals are gone.
Done(s, r) ==
  [s EXCEPT !.req[r] = [IdleReq EXCEPT !.pc = "done", !.kind = s.req[r].kind,
                                       !.err = s.req[r].err]]

\* Faulty variant: a finally that forgets activeRequestCount--.
finallyProcessRequest_NoDecrement(s, r) ==
  tryExecutePendingSwitch(Done(removeMessageQueue(s, r), r))

\* Faulty variant: a finally that leaves the queue in the registry.
finallyProcessRequest_KeepsQueue(s, r) ==
  LET n  == s.activeRequestCount - 1
      s2 == [s EXCEPT !.activeRequestCount = IF n < 0 THEN 0 ELSE n]
  IN tryExecutePendingSwitch(Done(s2, r))

\* processRequest, finally (lines 820-825).
finallyProcessRequest(s, r) ==
  LET s1 == removeMessageQueue(s, r)
      n  == s1.activeRequestCount - 1
      s2 == [s1 EXCEPT !.activeRequestCount = IF n < 0 THEN 0 ELSE n]
  IN tryExecutePendingSwitch(Done(s2, r))

\* processOpenAIRequest, finally (lines 977-983).
finallyProcessOpenAIRequest(s, r) ==
  LET s1 == resEnd(removeMessageQueue(s, r), r)
      n  == s1.activeRequestCount - 1
      s2 == [s1 EXCEPT !.activeRequestCount = IF n < 0 THEN 0 ELSE n]
  IN tryExecutePendingSwitch(Done(s2, r))

\* processModelListRequest, finally (lines 1021-1023).
finallyProcessModelListRequest(s, r) == Done(removeMessageQueue(s, r), r)

IsOpenAI(k) == k \in {"oaiStream", "oaiNon"}

\* What follows a handler's return or throw, by the entry point it came from.
finallyOf(s, r) ==
  IF s.req[r].kind = "models" THEN finallyProcessModelListRequest(s, r)
  ELSE IF IsOpenAI(s.req[r].kind) THEN finallyProcessOpenAIRequest(s, r)
  ELSE finallyProcessRequest(s, r)

\* ------------------------------------------------ failure-triggered rotation
\* The statements after "await _handleRequestFailureAndSwitch(..)" of each
\* handler, up to and including the finally blocks.
afterFailure(s, r) ==
  LET k  == s.req[r].kind
      st == s.req[r].err.status
      s1 == CASE k = "fake"      -> resEnd(sendErrorChunkToClient(s, r), r)
              [] k = "real"      -> sendErrorResponse(s, r, st)
              [] k = "non"       -> sendErrorResponse(s, r, st)
              [] k = "oaiStream" -> IF ~s.res[r].writableEnded
                                    THEN resEnd(resWrite(s, r, "[DONE]"), r)
                                    ELSE s
              [] OTHER           -> sendErrorResponse(s, r, st)
  IN finallyOf(s1, r)

\* Whether _handleRequestFailureAndSwitch was handed res (pseudo stream and
\* OpenAI) or null (real stream and non-stream).
PassesRes(k) == k \in {"fake", "oaiStream", "oaiNon"}

\* The outcome of the switch as _handleRequestFailureAndSwitch sees it
\* (lines 733-741), then the rest of the handler.
afterSwitch(s, r, outcome) ==
  LET s1 == IF outcome # "success" /\ PassesRes(s.req[r].kind)
            THEN sendErrorChunkToClient(s, r)
            ELSE s
  IN afterFailure(s1, r)

Bump(n) == n + 1

\* Faulty variant: the switch starts one failure after the threshold.
handleRequestFailureAndSwitch_PastThreshold(s, r, m) ==
  LET s1 == [s EXCEPT !.failureCount = IF failureThreshold > 0 THEN Bump(@) ELSE @,
                      !.req[r].err = [status |-> m.status, message |-> m.message]]
      isImmediateSwitch == m.status \in immediateSwitchStatusCodes
      isThresholdReached == failureThreshold > 0
                            /\ s1.failureCount > failureThreshold
  IN IF isImmediateSwitch \/ isThresholdReached
     THEN IF s1.isAuthSwitching
          THEN afterFailure(s1, r)
          ELSE switchToNextAuth([s1 EXCEPT !.req[r].pc = "switch"], "request", r)
     ELSE afterFailure(s1, r)

\* Faulty variant: only the failure threshold starts a switch.
handleRequestFailureAndSwitch_ThresholdOnly(s, r, m) ==
  LET s1 == [s EXCEPT !.failureCount = IF failureThreshold > 0 THEN Bump(@) ELSE @,
                      !.req[r].err = [status |-> m.status, message |-> m.message]]
      isThresholdReached == failureThreshold > 0
                            /\ s1.failureCount >= failureThreshold
  IN IF isThresholdReached /\ ~s1.isAuthSwitching
     THEN switchToNextAuth([s1 EXCEPT !.req[r].pc = "switch"], "request", r)
     ELSE afterFailure(s1, r)

\* Faulty variant: the switch is started without the isAuthSwitching test of
\* _switchToNextAuth.
handleRequestFailureAndSwitch_NoBusyCheck(s, r, m) ==
  LET s1 == [s EXCEPT !.failureCount = IF failureThreshold > 0 THEN Bump(@) ELSE @,
                      !.req[r].err = [status |-> m.status, message |-> m.message]]
      isImmediateSwitch == m.status \in immediateSwitchStatusCodes
      isThresholdReached == failureThreshold > 0
                            /\ s1.failureCount >= failureThreshold
  IN IF isImmediateSwitch \/ isThresholdReached
     THEN switchToNextAuth([s1 EXCEPT !.req[r].pc = "switch"], "request", r)
     ELSE afterFailure(s1, r)

\* _handleRequestFailureAndSwitch (lines 718-743) for the error m of request r,
\* followed by the rest of the handler when no switch is awaited.
handleRequestFailureAndSwitch(s, r, m) ==
  LET s1 == [s EXCEPT !.failureCount = IF failureThreshold > 0 THEN Bump(@) ELSE @,
                      !.req[r].err = [status |-> m.status, message |-> m.message]]
      isImmediateSwitch == m.status \in immediateSwitchStatusCodes
      isThresholdReached == failureThreshold > 0
                            /\ s1.failureCount >= failureThreshold
  IN IF isImmediateSwitch \/ isThresholdReached
     THEN IF s1.isAuthSwitching
          THEN afterFailure(s1, r)   \* { success: false, reason: "Busy" }
          ELSE switchToNextAuth([s1 EXCEPT !.req[r].pc = "switch"], "request", r)
     ELSE afterFailure(s1, r)

\* ------------------------------------------------------ the response modes
resetFailureCount(s) ==
  IF s.failureCount > 0 THEN [s EXCEPT !.failureCount = 0] ELSE s

Aborted(m) == m.message = "aborted"

\* _handlePseudoStreamResponse, lines 1101-1122: what the retry loop does with
\* the outcome m of one attempt.
fakeAfterAttempt(s, r, m) ==
  IF m.event_type = "error" /\ ~Aborted(m)
  THEN IF s.req[r].attempt < s.maxRetries
       THEN [s EXCEPT !.req[r].pc = "delay"]
       ELSE handleRequestFailureAndSwitch(s, r, m)
  ELSE [resetFailureCount(s) EXCEPT !.req[r].pc = "data"]

\* One pass of the retry loop up to its await (lines 1090-1096): forward the
\* frame, then wait for the first event.  Without a connection _forwardRequest
\* throws into the catch of line 1133.
fakeAttempt(s, r) ==
  LET s1 == [s EXCEPT !.req[r].attempt = @ + 1] IN
  IF hasActiveConnections(s1)
  THEN [forwardRequest(s1, r) EXCEPT !.req[r].pc = "first"]
  ELSE finallyProcessRequest(
         resEnd(handleRequestError(s1, r, "No available browser connection."), r), r)

\* The first statements of each handler, up to its first dequeue.
startHandler(s, r) ==
  LET k == s.req[r].kind IN
  IF k = "fake" THEN fakeAttempt(resStatus(s, r, 200), r)
  ELSE IF hasActiveConnections(s)
       THEN [forwardRequest(s, r) EXCEPT !.req[r].pc = "first"]
       ELSE IF k = "models"
            THEN finallyOf(sendErrorResponse(s, r, 500), r)
            ELSE finallyOf(
                   handleRequestError(s, r, "No available browser connection."), r)

\* ------------------------------------------------------ dialect translator
\* The data of a chunk event is a string; JSON.parse of the strings used here
\* gives the first candidate below.  A text is a sequence of pieces, so that
\* concatenation is \o.  "c1", "c2", "c3" are plain one-part text chunks, "c2"
\* with a finishReason as the last chunk of an answer has one.
TextPart(t) == [kind |-> "text", text |-> t]
NoCandidate == [candidate |-> FALSE, parts |-> <<>>, finishReason |-> ""]
Candidate(parts, fr) == [candidate |-> TRUE, parts |-> parts, finishReason |-> fr]

parseGoogleChunk(d) ==
  CASE d = "c1" -> Candidate(<<TextPart(<<"c1">>)>>, "")
    [] d = "c2" -> Candidate(<<TextPart(<<"c2">>)>>, "STOP")
    [] d = "c3" -> Candidate(<<TextPart(<<"c3">>)>>, "")
    [] d = "ab" -> Candidate(<<TextPart(<<"a">>), TextPart(<<"b">>)>>, "")
    [] d = "blank" -> Candidate(<<TextPart(<<>>)>>, "")
    [] d = "stop" -> Candidate(<<>>, "STOP")
    [] d = "think" -> Candidate(<<[kind |-> "thought", text |-> <<"t">>],
                                  TextPart(<<"x">>)>>, "")
    [] d = "img" -> Candidate(<<[kind |-> "inlineData", text |-> <<>>]>>, "")
    [] OTHER -> NoCandidate

\* The forEach over candidate.content.parts (lines 1316-1322): the content
\* and the reasoning content gathered from the parts.
RECURSIVE gatherParts(_, _)
gatherParts(parts, acc) ==
  IF parts = <<>> THEN acc
  ELSE LET p == Head(parts)
           next == CASE p.kind = "inlineData" ->
                          [acc EXCEPT !.content = @ \o <<"![Image]">>]
                     [] p.kind = "thought" ->
                          [acc EXCEPT !.reasoning_content = @ \o p.text]
                     [] OTHER -> [acc EXCEPT !.content = @ \o p.text]
       IN gatherParts(Tail(parts), next)

NoDelta == [content |-> <<>>, reasoning_content |-> <<>>]
Suppressed == [emit |-> FALSE, delta |-> NoDelta, finish_reason |-> ""]

\* Faulty variant: only the first part of a chunk is translated.
translateGoogleToOpenAIStream_FirstPart(d) ==
  LET c == parseGoogleChunk(d)
      delta == gatherParts(IF c.parts = <<>> THEN <<>> ELSE <<Head(c.parts)>>, NoDelta)
  IN IF d = "" \/ ~c.candidate THEN Suppressed
     ELSE IF delta = NoDelta /\ c.finishReason = "" THEN Suppressed
     ELSE [emit |-> TRUE, delta |-> delta, finish_reason |-> c.finishReason]

\* _translateGoogleToOpenAIStream (lines 1305-1341): the OpenAI chunk for the
\* Google chunk d, or nothing (null).
translateGoogleToOpenAIStream(d) ==
  LET c == parseGoogleChunk(d)
      delta == gatherParts(c.parts, NoDelta)
  IN IF d = "" \/ ~c.candidate THEN Suppressed
     ELSE IF delta = NoDelta /\ c.finishReason = "" THEN Suppressed
     ELSE [emit |-> TRUE, delta |-> delta, finish_reason |-> c.finishReason]

\* The body of the stream loop of processOpenAIRequest for a chunk (lines
\* 909-916).  What is written for the chunk d is "data: " and the JSON of
\* translateGoogleToOpenAIStream(d); the response body records it as d.
writeTranslated(s, r, d) ==
  IF translateGoogleToOpenAIStream(d).emit THEN resWrite(s, r, d) ELSE s

\* _handlePseudoStreamResponse once dataMessage and endMessage are there
\* (lines 1123-1137): the payload frame, the [DONE] frame, and the finally
\* that stops the keep-alive interval and ends the response.
fakeFinish(s, r) ==
  LET s1 == IF s.req[r].data # "" THEN resWrite(s, r, s.req[r].data) ELSE s
  IN resEnd(resWrite(s1, r, "[DONE]"), r)

\* The handler of request r resumes with the message m of its pending dequeue.
onMessage(s, r, m) ==
  LET k  == s.req[r].kind
      pc == s.req[r].pc
      isError == m.event_type = "error"
      isEnd == m.event_type = "STREAM_END"
      hasData == m.data # ""
  IN
  CASE k = "fake" /\ pc = "first" -> fakeAfterAttempt(s, r, m)
    [] k = "fake" /\ pc = "data" ->
         [s EXCEPT !.req[r].pc = "end", !.req[r].data = m.data]
    [] k = "fake" /\ pc = "end" -> finallyProcessRequest(fakeFinish(s, r), r)
    [] k = "real" /\ pc = "first" ->
         IF isError THEN handleRequestFailureAndSwitch(s, r, m)
         ELSE [resStatus(resetFailureCount(s), r, m.status) EXCEPT !.req[r].pc = "body"]
    [] k = "real" /\ pc = "body" ->
         IF isEnd THEN finallyProcessRequest(resEnd(s, r), r)
         ELSE IF hasData THEN resWrite(s, r, m.data) ELSE s
    [] k = "non" /\ pc = "first" ->
         IF isError THEN handleRequestFailureAndSwitch(s, r, m)
         ELSE [s EXCEPT !.req[r].pc = "body"]
    [] k = "non" /\ pc = "body" ->
         IF isEnd THEN finallyProcessRequest(resSend(resetFailureCount(s), r, 200), r)
         ELSE s
    [] IsOpenAI(k) /\ pc = "first" ->
         IF isError THEN handleRequestFailureAndSwitch(s, r, m)
         ELSE [resetFailureCount(s) EXCEPT !.req[r].pc = "body"]
    [] k = "oaiStream" /\ pc = "body" ->
         IF isEnd THEN finallyProcessOpenAIRequest(resWrite(s, r, "[DONE]"), r)
         ELSE IF hasData THEN writeTranslated(s, r, m.data) ELSE s
    [] k = "oaiNon" /\ pc = "body" ->
         IF isEnd
         THEN IF s.req[r].data = ""
              THEN finallyProcessOpenAIRequest(
                     handleRequestError(s, r, "Unexpected end of JSON input"), r)
              ELSE finallyProcessOpenAIRequest(resSend(s, r, 200), r)
         ELSE IF m.event_type = "chunk" /\ hasData
              THEN [s EXCEPT !.req[r].data = m.data]
              ELSE s
    [] k = "models" /\ pc = "first" ->
         IF isError THEN finallyProcessModelListRequest(sendErrorResponse(s, r, 500), r)
         ELSE [s EXCEPT !.req[r].pc = "body"]
    [] k = "models" /\ pc = "body" ->
         IF isEnd THEN finallyProcessModelListRequest(resSend(s, r, 200), r)
         ELSE s

\* The handler's pending dequeue rejects: "Queue timeout" from its timer,
\* "Queue closed" / "Queue is closed" from close().
onReject_NoDequeueTimer(s, r, why) ==
  LET k  == s.req[r].kind
      pc == s.req[r].pc
  IN
  CASE why = "Queue timeout" /\ ~(k = "fake" /\ pc = "first") -> s
    [] k = "fake" /\ pc = "first" -> fakeAfterAttempt(s, r, TimeoutError)
    [] k = "fake" /\ pc # "first" ->
         finallyProcessRequest(resEnd(handleRequestError(s, r, why), r), r)
    [] k = "real" /\ pc = "body" ->
         finallyProcessRequest(handleRequestError(resEnd(s, r), r, why), r)
    [] k = "models" -> finallyProcessModelListRequest(sendErrorResponse(s, r, 500), r)
    [] OTHER -> finallyOf(handleRequestError(s, r, why), r)

onReject(s, r, why) ==
  LET k  == s.req[r].kind
      pc == s.req[r].pc
  IN
  CASE k = "fake" /\ pc = "first" -> fakeAfterAttempt(s, r, TimeoutError)
    [] k = "fake" /\ pc # "first" ->
         finallyProcessRequest(resEnd(handleRequestError(s, r, why), r), r)
    [] k = "real" /\ pc = "body" ->
         IF why = "Queue timeout"
         THEN finallyProcessRequest(resEnd(s, r), r)
         ELSE finallyProcessRequest(handleRequestError(resEnd(s, r), r, why), r)
    [] k = "models" -> finallyProcessModelListRequest(sendErrorResponse(s, r, 500), r)
    [] OTHER -> finallyOf(handleRequestError(s, r, why), r)

\* Faulty variant: the usage counter with > in place of >=.
countUse_Late(s, isGenerativeRequest) ==
  IF switchOnUses > 0 /\ isGenerativeRequest /\ ~s.pendingSwitch
  THEN LET n == s.usageCount + 1 IN
       [s EXCEPT !.usageCount = n,
                 !.pendingSwitch = IF n > switchOnUses THEN TRUE ELSE @]
  ELSE s

\* ------------------------------------------------------------ entry points
\* Lines 786-791 and 835-840: the usage counter.
countUse(s, isGenerativeRequest) ==
  IF switchOnUses > 0 /\ isGenerativeRequest /\ ~s.pendingSwitch
  THEN LET n == s.usageCount + 1 IN
       [s EXCEPT !.usageCount = n,
                 !.pendingSwitch = IF n >= switchOnUses THEN TRUE ELSE @]
  ELSE s

\* processRequest from line 778 on: after the connection check.
afterRecovery(s, r) ==
  IF s.isSystemBusy
  THEN Done(sendErrorResponse([s EXCEPT !.activeRequestCount = @ - 1], r, 503), r)
  ELSE startHandler(createMessageQueue(
         [countUse(s, s.req[r].gen) EXCEPT !.req[r].gen = FALSE], r), r)

\* processRequest up to its first await (lines 745-776).
processRequest(s, r, wantsStream, isGenerativeRequest) ==
  IF s.pendingSwitch \/ s.isAuthSwitching
  THEN Done(sendErrorResponse(s, r, 503), r)
  ELSE
    LET s1 == [s EXCEPT !.activeRequestCount = @ + 1,
                        !.hist[r].accepted = TRUE,
                        !.req[r].gen = isGenerativeRequest,
                        !.req[r].kind = IF wantsStream THEN s.streamingMode
                                        ELSE "non"]
    IN IF ~hasActiveConnections(s1)
       THEN IF s1.isSystemBusy
            THEN Done(sendErrorResponse(
                   [s1 EXCEPT !.activeRequestCount = @ - 1], r, 503), r)
            ELSE beginLaunch([s1 EXCEPT !.isSystemBusy = TRUE,
                                        !.req[r].pc = "recovering",
                                        !.req[r].idx = s1.currentAuthIndex])
       ELSE afterRecovery(s1, r)

\* The end of the auto-recovery launchOrSwitchContext (lines 767-776).
recoveryDone(s, r, ok) ==
  IF ok
  THEN afterRecovery([launchSucceeded(s, s.req[r].idx) EXCEPT
                        !.isSystemBusy = FALSE, !.req[r].idx = 0], r)
  ELSE Done(sendErrorResponse(
         [launchFailed(s) EXCEPT !.activeRequestCount = @ - 1,
                                 !.isSystemBusy = FALSE], r, 503), r)

\* processOpenAIRequest up to its first await (lines 828-877); "valid" is
\* whether _translateOpenAIToGoogle accepts the body.
processOpenAIRequest(s, r, isOpenAIStream, valid) ==
  IF s.pendingSwitch \/ s.isAuthSwitching
  THEN Done(sendErrorResponse(s, r, 503), r)
  ELSE
    LET s1 == countUse([s EXCEPT !.activeRequestCount = @ + 1,
                                 !.hist[r].accepted = TRUE,
                                 !.req[r].kind = IF isOpenAIStream THEN "oaiStream"
                                                 ELSE "oaiNon"], TRUE)
    IN IF ~valid
       THEN Done(sendErrorResponse(
              [s1 EXCEPT !.activeRequestCount = @ - 1], r, 400), r)
       ELSE startHandler(createMessageQueue(s1, r), r)

\* processModelListRequest up to its first await (lines 986-996).
processModelListRequest(s, r) ==
  startHandler(createMessageQueue([s EXCEPT !.req[r].kind = "models"], r), r)

\* ---------------------------------------------------- the end of a switch
\* The finally of _switchToNextAuth / _switchToSpecificAuth.
switchFinally(s) ==
  [s EXCEPT !.isAuthSwitching = FALSE, !.isSystemBusy = FALSE,
            !.switchOp = NoSwitch]

resetCounters(s) == [s EXCEPT !.failureCount = 0, !.usageCount = 0]

\* The caller of the switch resumes with its outcome: "success", "fallback"
\* or "throw".
resumeCaller(s, by, r, outcome) ==
  CASE by = "request" -> afterSwitch(s, r, outcome)
    [] by = "deferred" -> [s EXCEPT !.pendingSwitch = FALSE]
    [] OTHER -> s

\* switchAccount(target) returned or threw (lines 667-673, 703-715).
switchDone(s, ok) ==
  LET op == s.switchOp IN
  IF ok
  THEN LET s1 == resetCounters(launchSucceeded(s, op.target))
           s2 == IF op.by = "specific" THEN [s1 EXCEPT !.pendingSwitch = FALSE]
                 ELSE s1
       IN resumeCaller(switchFinally(s2), op.by, op.r, "success")
  ELSE IF op.by = "specific"
       THEN switchFinally(launchFailed(s))
       ELSE beginLaunch([s EXCEPT !.switchOp.phase = "rollback"])

\* The rollback launchOrSwitchContext(previousAuthIndex) returned or threw
\* (lines 674-691).
rollbackDone(s, ok) ==
  LET op == s.switchOp IN
  IF ok
  THEN resumeCaller(switchFinally(resetCounters(launchSucceeded(s, op.prev))),
                    op.by, op.r, "fallback")
  ELSE resumeCaller(switchFinally(launchFailed(s)), op.by, op.r, "throw")

\* ------------------------------------------------------------------- Init
\* The state when start() has loaded the first credential and the HTTP and
\* WebSocket servers listen; the page's relay script has not connected yet.
\* streamingMode and maxRetries come from the environment.
Init ==
  /\ activeRequestCount = 0
  /\ usageCount = 0
  /\ failureCount = 0
  /\ pendingSwitch = FALSE
  /\ isAuthSwitching = FALSE
  /\ isSystemBusy = FALSE
  /\ currentAuthIndex = availableIndices[1]
  /\ connections = 0
  /\ reconnectGraceTimer = FALSE
  /\ messageQueues = [r \in Reqs |-> NoQueue]
  /\ streamingMode \in {"real", "fake"}
  /\ maxRetries \in 1..MaxAttempts
  /\ (streamingMode = "real" => maxRetries = 1)
  /\ switchOp = NoSwitch
  /\ req = [r \in Reqs |-> IdleReq]
  /\ res = [r \in Reqs |-> FreshRes]
  /\ relay = [r \in Reqs |-> IdleRelay]
  /\ hist = [r \in Reqs |-> NoHist]
  /\ mq = NewMessageQueue

\* ---------------------------------------------------------------- actions
Waiting(s, r) == s.req[r].pc \in {"first", "data", "end", "body"}

\* A dequeue that finds a message, or a closed queue, resumes its handler in
\* the same turn of the event loop (promise reactions are microtasks), and so
\* does an enqueue that finds the handler's dequeue waiting: the handler of r
\* runs on until it waits on an empty open queue or on something else.
RECURSIVE settle(_, _)
settle(s, r) ==
  LET q == s.messageQueues[r] IN
  IF ~Waiting(s, r) THEN s
  ELSE IF q.state # "open" THEN settle(onReject(s, r, "Queue closed"), r)
  ELSE IF q.messages # <<>>
       THEN settle(onMessage([s EXCEPT !.messageQueues[r].messages = Tail(@)],
                             r, Head(q.messages)), r)
       ELSE s

\* The handlers of the requests of seq resume one after the other.
RECURSIVE settleAll(_, _)
settleAll(s, seq) ==
  IF seq = <<>> THEN s ELSE settleAll(settle(s, Head(seq)), Tail(seq))

\* The orders in which the requests can be taken.
Orders == {o \in [1..MaxReqs -> Reqs] : \A i, j \in 1..MaxReqs : i # j => o[i] # o[j]}

\* A finished request leaves nothing behind: its response object, its queue
\* and what the relay did for its id play no part in any later step, and the
\* next request of the slot gets a fresh request id.  Every action starts
\* from the state with the finished requests cleared.
Cur ==
  LET gone(r) == req[r].pc = "done" IN
  [State EXCEPT
     !.req = [r \in Reqs |-> IF gone(r) THEN IdleReq ELSE @[r]],
     !.res = [r \in Reqs |-> IF gone(r) THEN FreshRes ELSE @[r]],
     !.relay = [r \in Reqs |-> IF gone(r) THEN IdleRelay ELSE @[r]],
     !.hist = [r \in Reqs |-> IF gone(r) THEN NoHist
                              ELSE [@[r] EXCEPT !.keys = <<>>]],
     !.messageQueues = [r \in Reqs |-> IF gone(r) THEN NoQueue ELSE @[r]]]

\* An HTTP request reaches the passthrough route.
ArrivePassthrough(r) ==
  /\ Cur.req[r].pc = "idle"
  /\ usageCount < MaxCount
  /\ \E wantsStream \in BOOLEAN, isGenerativeRequest \in BOOLEAN :
       Commit(settle(processRequest(Cur, r, wantsStream, isGenerativeRequest), r))

\* An HTTP request reaches POST /v1/chat/completions.
ArriveOpenAI(r) ==
  /\ Cur.req[r].pc = "idle"
  /\ usageCount < MaxCount
  /\ \E isOpenAIStream \in BOOLEAN, valid \in BOOLEAN :
       Commit(settle(processOpenAIRequest(Cur, r, isOpenAIStream, valid), r))

\* An HTTP request reaches GET /v1/models.
ArriveModelList(r) ==
  /\ Cur.req[r].pc = "idle"
  /\ Commit(settle(processModelListRequest(Cur, r), r))

\* The auto-recovery browser load of request r ends.
RecoveryDone(r) ==
  /\ req[r].pc = "recovering"
  /\ \E ok \in BOOLEAN : \E c \in {Cur} : \E a \in {recoveryDone(c, r, ok)} :
       \E b \in {settle(a, r)} : Commit(b)

\* The timer of the handler's pending dequeue fires ("Queue timeout").
QueueTimeout(r) ==
  /\ Waiting(Cur, r)
  /\ ~(req[r].kind = "fake" /\ req[r].pc = "first")
  /\ \E c \in {Cur} : \E a \in {onReject(c, r, "Queue timeout")} :
       \E b \in {settle(a, r)} : Commit(b)

\* The 300 s timer of a pseudo-stream attempt wins the race (line 1095); the
\* dequeue it raced stays in the queue as a resolver nobody listens to.
AttemptTimeout(r) ==
  /\ req[r].kind = "fake" /\ req[r].pc = "first"
  /\ failureCount < MaxCount
  /\ \E c \in {[Cur EXCEPT !.messageQueues[r].abandoned = @ + 1]} :
       \E a \in {fakeAfterAttempt(c, r, TimeoutError)} :
         \E b \in {settle(a, r)} : Commit(b)

\* The timer of a resolver left behind fires and removes it.
AbandonedTimeout(r) ==
  /\ Cur.messageQueues[r].abandoned > 0
  /\ Commit([Cur EXCEPT !.messageQueues[r].abandoned = @ - 1])

\* The retry delay of a pseudo-stream request is over (line 1105).
RetryDelayDone(r) ==
  /\ req[r].pc = "delay"
  /\ \E c \in {Cur} : \E a \in {fakeAttempt(c, r)} :
       \E b \in {settle(a, r)} : Commit(b)

\* The keep-alive interval of a pseudo-stream response fires (line 1083).  Only
\* the first write of the response matters to the state: it sends the head.
KeepAlive(r) ==
  /\ req[r].kind = "fake"
  /\ req[r].pc \in {"first", "delay", "switch", "data", "end"}
  /\ ~res[r].headersSent
  /\ ~res[r].writableEnded
  /\ Commit([Cur EXCEPT !.res[r] = flushHead(@)])

\* The client's connection closes before the response has ended (line 753;
\* processOpenAIRequest and processModelListRequest register no handler).
ClientClose(r) ==
  /\ req[r].pc \notin {"idle", "done"}
  /\ ~res[r].closed
  /\ ~res[r].writableEnded
  /\ LET s == [Cur EXCEPT !.res[r].closed = TRUE] IN
     Commit(IF req[r].kind \in {"fake", "real", "non"}
            THEN cancelBrowserRequest(s, r)
            ELSE s)

\* The relay (the page script) answers the frame of request r with an error
\* event instead of response_headers; after a cancel_request the error may be
\* the abort of the upstream call.
RelayError(r) ==
  /\ hasActiveConnections(Cur)
  /\ Cur.relay[r].phase = "pending"
  /\ failureCount < MaxCount
  /\ \E m \in {Msg("error", 500, "", "upstream"), Msg("error", 429, "", "upstream"),
               Msg("error", 500, "", "aborted")} :
       /\ Aborted(m) => relay[r].cancelled
       /\ Commit(settle(handleIncomingMessage(
                          [Cur EXCEPT !.relay[r] = IdleRelay,
                                      !.hist[r].aborted = (@ \/ Aborted(m))],
                          Frame(r, m)), r))

\* The relay sends response_headers for request r.
RelayHeaders(r) ==
  /\ hasActiveConnections(Cur)
  /\ Cur.relay[r].phase = "pending"
  /\ Commit(settle(handleIncomingMessage(
                     [Cur EXCEPT !.relay[r].phase = "streaming"],
                     Frame(r, Msg("response_headers", 200, "", ""))), r))

\* The relay sends the next chunk of the response of request r.
RelayChunk(r) ==
  /\ hasActiveConnections(Cur)
  /\ Cur.relay[r].phase = "streaming"
  /\ relay[r].sent < MaxChunks
  /\ LET d == ChunkData(relay[r].sent + 1) IN
     Commit(settle(handleIncomingMessage(
                     [Cur EXCEPT !.relay[r].sent = @ + 1,
                                 !.hist[r].delivered = Append(@, d)],
                     Frame(r, Msg("chunk", 0, d, ""))), r))

\* The chunk data the relay sends for a chat request: text chunks, chunks
\* with an empty text, with a finishReason alone, with a thought, with an
\* image, and a chunk without candidate.
GoogleChunks == {"c1", "c2", "ab", "blank", "stop", "think", "img", "nocand"}

\* The relay sends a chunk of the upstream Google stream for request r.
RelayGoogleChunk(r) ==
  /\ hasActiveConnections(Cur)
  /\ Cur.relay[r].phase = "streaming"
  /\ relay[r].sent < MaxChunks
  /\ \E d \in GoogleChunks :
       Commit(settle(handleIncomingMessage(
                       [Cur EXCEPT !.relay[r].sent = @ + 1,
                                   !.hist[r].delivered = Append(@, d)],
                       Frame(r, Msg("chunk", 0, d, ""))), r))

\* The relay sends stream_close for request r.
RelayStreamClose(r) ==
  /\ hasActiveConnections(Cur)
  /\ Cur.relay[r].phase = "streaming"
  /\ Commit(settle(handleIncomingMessage(
                     [Cur EXCEPT !.relay[r] = [IdleRelay EXCEPT !.phase = "closed"]],
                     Frame(r, Msg("stream_close", 0, "", ""))), r))

\* The frames a connection may deliver: text that does not parse, frames
\* without request_id, with the id of a request or with an id no request has,
\* with an event type of the protocol or another one.
AllFrames ==
  [parses : BOOLEAN, request_id : 0..(MaxReqs + 1),
   event_type : {"response_headers", "chunk", "error", "stream_close", "ping"},
   status : {200}, data : {"c1"}, message : {""}]

\* The frame f reaches a queue of the registry of s.
Routed(s, f) ==
  /\ f.parses /\ f.request_id \in Reqs
  /\ s.messageQueues[f.request_id].state = "open"
  /\ f.event_type \in {"response_headers", "chunk", "error", "stream_close"}

\* The connection delivers a frame that belongs to no request in flight:
\* noise, an event of an unknown type, or a late event of a request whose
\* queue is gone.
RelayStray ==
  /\ hasActiveConnections(Cur)
  /\ \E f \in AllFrames :
       /\ ~Routed(Cur, f)
       /\ Commit(handleIncomingMessage(Cur, f))

\* Faulty variant: addConnection that leaves the grace timer running.
AddConnection_KeepsTimer ==
  /\ connections < MaxConns
  /\ Commit([Cur EXCEPT !.connections = @ + 1])

\* addConnection (lines 505-525): the page's relay script connects.
AddConnection ==
  /\ connections < MaxConns
  /\ Commit([Cur EXCEPT !.reconnectGraceTimer = FALSE, !.connections = @ + 1])

\* Faulty variant: _removeConnection that starts the timer on every close.
RemoveConnection_AlwaysArms ==
  /\ connections > 0
  /\ Commit([Cur EXCEPT !.connections = @ - 1, !.reconnectGraceTimer = TRUE])

\* _removeConnection (lines 527-544): a relay socket closes.
RemoveConnection ==
  /\ connections > 0
  /\ Commit([Cur EXCEPT !.connections = @ - 1,
                        !.reconnectGraceTimer = (@ \/ connections = 1)])

\* The grace timer fires (lines 533-540): every queue is closed and the
\* registry emptied; the handlers waiting on them resume with the rejection.
GraceTimerFires ==
  /\ reconnectGraceTimer
  /\ failureCount < MaxCount
  /\ \E order \in Orders :
       Commit(settleAll([Cur EXCEPT
         !.reconnectGraceTimer = FALSE,
         !.messageQueues = [r \in Reqs |->
            IF @[r].state = "open" THEN [NoQueue EXCEPT !.state = "closed"]
            ELSE @[r]]], order))

\* switchAccount of the running switch returns or throws.
SwitchDone ==
  /\ switchOp.phase = "switch"
  /\ \E ok \in BOOLEAN : \E c \in {Cur} : \E a \in {switchDone(c, ok)} : Commit(a)

\* The rollback load of the running switch returns or throws.
RollbackDone ==
  /\ switchOp.phase = "rollback"
  /\ \E ok \in BOOLEAN : \E c \in {Cur} : \E a \in {rollbackDone(c, ok)} : Commit(a)

\* The API keys of the configuration (lines 1389-1402: never empty, "123456"
\* when none is configured) and the values a key location of a request can
\* hold: nothing, an allow-listed key, another key.
serverApiKeys == {"k1"}
KeyValues == {"", "k1", "bad"}
AuthorizationValues == {"", "Bearer k1", "Bearer bad"}

\* req.headers.authorization.substring(7).
substring7(v) ==
  CASE v = "Bearer k1" -> "k1"
    [] v = "Bearer bad" -> "bad"
    [] OTHER -> ""

\* The key locations of a request: <<x-goog-api-key, Authorization,
\* x-api-key, ?key=>>.
Headers == KeyValues \X AuthorizationValues \X KeyValues \X KeyValues

\* a || b of JavaScript on strings.
OrElse(a, b) == IF a # "" THEN a ELSE b

\* Faulty variant: a middleware that lets every request through.
authMiddleware_Open(h) == "next"

\* The middleware of _createAuthMiddleware (lines 1437-1458): "next" or "401".
authMiddleware(h) ==
  LET clientKey == OrElse(h[1], OrElse(substring7(h[2]), OrElse(h[3], h[4]))) IN
  IF serverApiKeys = {} THEN "next"
  ELSE IF clientKey # "" /\ clientKey \in serverApiKeys THEN "next"
  ELSE "401"

\* An HTTP request with the key locations h reaches the API routes (lines
\* 1593-1596): the middleware first, then the handler of its route (a
\* streaming generative call, a streaming chat call with a valid body, or the
\* model list).
HttpRequest(r) ==
  /\ Cur.req[r].pc = "idle"
  /\ usageCount < MaxCount
  /\ \E h \in Headers, route \in {"passthrough", "openai", "models"} :
       LET s == [Cur EXCEPT !.hist[r].keys = h] IN
       IF authMiddleware(h) = "401"
       THEN Commit(Done(resSend(s, r, 401), r))
       ELSE CASE route = "passthrough" -> Commit(settle(processRequest(s, r, TRUE, TRUE), r))
              [] route = "openai" -> Commit(settle(processOpenAIRequest(s, r, TRUE, TRUE), r))
              [] OTHER -> Commit(settle(processModelListRequest(s, r), r))

\* POST /api/switch-account without targetIndex (lines 1549-1560); while a
\* switch runs the call returns "Busy" and changes nothing.
AdminSwitchNext ==
  /\ ~isAuthSwitching
  /\ Commit(switchToNextAuth(Cur, "manual", 0))

\* The values of targetIndex in the body of POST /api/switch-account: the
\* configured indices and two that are not configured.
TargetIndices == {0, 1, 2, 3}

\* POST /api/switch-account with a targetIndex (lines 1549-1560); while a
\* switch runs the call returns "Busy" and changes nothing.
AdminSwitchSpecific ==
  /\ ~isAuthSwitching
  /\ \E targetIndex \in TargetIndices :
       Commit(switchToSpecificAuth(Cur, targetIndex))

\* ------------------------------------------------------- specifications
\* The slot of the runs that serve one request at a time.
Serial == {1}

\* One request at a time, with everything the client, the relay, the timers
\* and the relay socket can do to it; rotation starts only from the server's
\* own triggers.
Next ==
  \/ \E r \in Serial : ArrivePassthrough(r)
  \/ \E r \in Serial : ArriveOpenAI(r)
  \/ \E r \in Serial : ArriveModelList(r)
  \/ \E r \in Serial : RecoveryDone(r)
  \/ \E r \in Serial : QueueTimeout(r)
  \/ \E r \in Serial : AttemptTimeout(r)
  \/ \E r \in Serial : AbandonedTimeout(r)
  \/ \E r \in Serial : RetryDelayDone(r)
  \/ \E r \in Serial : KeepAlive(r)
  \/ \E r \in Serial : ClientClose(r)
  \/ \E r \in Serial : RelayError(r)
  \/ \E r \in Serial : RelayHeaders(r)
  \/ \E r \in Serial : RelayChunk(r)
  \/ \E r \in Serial : RelayStreamClose(r)
  \/ AddConnection
  \/ RemoveConnection
  \/ GraceTimerFires
  \/ SwitchDone
  \/ RollbackDone

Spec == Init /\ [][Next]_vars

\* One request at a time and the admin API: POST /api/switch-account can
\* arrive at any moment of the request.
NextAdmin ==
  \/ \E r \in Serial : ArrivePassthrough(r)
  \/ \E r \in Serial : ArriveOpenAI(r)
  \/ \E r \in Serial : ArriveModelList(r)
  \/ \E r \in Serial : RecoveryDone(r)
  \/ \E r \in Serial : QueueTimeout(r)
  \/ \E r \in Serial : RetryDelayDone(r)
  \/ \E r \in Serial : RelayError(r)
  \/ \E r \in Serial : RelayHeaders(r)
  \/ \E r \in Serial : RelayChunk(r)
  \/ \E r \in Serial : RelayStreamClose(r)
  \/ AddConnection
  \/ RemoveConnection
  \/ GraceTimerFires
  \/ SwitchDone
  \/ RollbackDone
  \/ AdminSwitchNext
  \/ AdminSwitchSpecific

SpecAdmin == Init /\ [][NextAdmin]_vars

\* Requests in flight together on the passthrough and the OpenAI routes of a
\* server configured for real streaming.
NextPair ==
  \/ \E r \in Reqs : ArrivePassthrough(r)
  \/ \E r \in Reqs : ArriveOpenAI(r)
  \/ \E r \in Reqs : RecoveryDone(r)
  \/ \E r \in Reqs : QueueTimeout(r)
  \/ \E r \in Reqs : RelayError(r)
  \/ \E r \in Reqs : RelayHeaders(r)
  \/ \E r \in Reqs : RelayStreamClose(r)
  \/ AddConnection
  \/ RemoveConnection
  \/ GraceTimerFires
  \/ SwitchDone
  \/ RollbackDone

InitReal == Init /\ streamingMode = "real"

SpecPair == InitReal /\ [][NextPair]_vars

\* A passthrough request and a GET /v1/models request in flight together, real
\* streaming.
NextModels ==
  \/ ArrivePassthrough(1)
  \/ ArriveModelList(2)
  \/ RecoveryDone(1)
  \/ \E r \in Reqs : QueueTimeout(r)
  \/ \E r \in Reqs : RelayError(r)
  \/ \E r \in Reqs : RelayHeaders(r)
  \/ \E r \in Reqs : RelayStreamClose(r)
  \/ AddConnection
  \/ RemoveConnection
  \/ GraceTimerFires
  \/ SwitchDone
  \/ RollbackDone

SpecModels == InitReal /\ [][NextModels]_vars

\* One request at a time behind the API key middleware, real streaming.
NextAuth ==
  \/ \E r \in Serial : HttpRequest(r)
  \/ \E r \in Serial : RecoveryDone(r)
  \/ \E r \in Serial : QueueTimeout(r)
  \/ \E r \in Serial : RelayError(r)
  \/ \E r \in Serial : RelayHeaders(r)
  \/ \E r \in Serial : RelayStreamClose(r)
  \/ AddConnection
  \/ RemoveConnection
  \/ GraceTimerFires
  \/ SwitchDone
  \/ RollbackDone

SpecAuth == InitReal /\ [][NextAuth]_vars

\* One chat request at a time whose answer is a stream of Google chunks.
NextTranslate ==
  \/ \E r \in Serial : ArriveOpenAI(r)
  \/ \E r \in Serial : QueueTimeout(r)
  \/ \E r \in Serial : RelayError(r)
  \/ \E r \in Serial : RelayHeaders(r)
  \/ \E r \in Serial : RelayGoogleChunk(r)
  \/ \E r \in Serial : RelayStreamClose(r)
  \/ AddConnection
  \/ RemoveConnection
  \/ GraceTimerFires
  \/ SwitchDone
  \/ RollbackDone

SpecTranslate == InitReal /\ [][NextTranslate]_vars

\* Two passthrough requests in flight with their events and stray frames.
NextRoute ==
  \/ \E r \in Reqs : ArrivePassthrough(r)
  \/ \E r \in Reqs : RecoveryDone(r)
  \/ \E r \in Reqs : QueueTimeout(r)
  \/ \E r \in Reqs : RelayError(r)
  \/ \E r \in Reqs : RelayHeaders(r)
  \/ \E r \in Reqs : RelayChunk(r)
  \/ \E r \in Reqs : RelayStreamClose(r)
  \/ RelayStray
  \/ AddConnection
  \/ RemoveConnection
  \/ GraceTimerFires
  \/ SwitchDone
  \/ RollbackDone

SpecRoute == InitReal /\ [][NextRoute]_vars

\* The users of one MessageQueue: enqueue, dequeue and close calls in any
\* order, and the timers of the waiting dequeue calls.
QueueEnqueue ==
  /\ mq.enqueued < MaxEnqueues
  /\ \E m \in QueueMessages : mq' = [mqEnqueue(mq, m) EXCEPT !.enqueued = @ + 1]
  /\ UNCHANGED serverVars

QueueDequeue ==
  /\ mq.issued < MaxWaiters
  /\ mq' = mqDequeue([mq EXCEPT !.issued = @ + 1], mq.issued + 1)
  /\ UNCHANGED serverVars

QueueTimerFires ==
  /\ \E w \in mq.timers : mq' = mqTimerFires(mq, w)
  /\ UNCHANGED serverVars

QueueClose ==
  /\ mq' = mqClose(mq)
  /\ UNCHANGED serverVars

NextQueue ==
  \/ QueueEnqueue
  \/ QueueDequeue
  \/ QueueTimerFires
  \/ QueueClose

SpecQueue == InitReal /\ [][NextQueue]_vars

\* -------------------------------------------------------------- properties
\* The requests a handler has accepted and not yet finalised.
Outstanding == {r \in Reqs : hist[r].accepted /\ req[r].pc \notin {"idle", "done"}}

\* C1: activeRequestCount is the number of requests that processRequest or
\* processOpenAIRequest accepted and has not finalised: each acceptance adds
\* one, each exit path takes one away exactly once, the counter is never
\* negative and is 0 exactly when no request is outstanding.
C1_CountIsOutstanding ==
  /\ activeRequestCount = Cardinality(Outstanding)
  /\ activeRequestCount >= 0

\* Two requests are in flight, or one has been finalised while the other is
\* still being served.
C1_Witness ==
  \/ activeRequestCount = 2
  \/ \E r, q \in Reqs :
       /\ r # q
       /\ hist[r].accepted /\ req[r].pc = "done"
       /\ req[q].pc = "body"
       /\ activeRequestCount = 1

\* C2: a rotation never begins while a request is in flight: whatever the
\* trigger, switchAccount is called only when activeRequestCount is 0.
C2_SwitchOnlyWhenIdle ==
  [][(switchOp.phase = "idle" /\ switchOp'.phase = "switch")
       => activeRequestCount' = 0]_vars

\* The step by which the request of slot r arrives at its entry point.
Arrives(r) == Cur.req[r].pc = "idle" /\ req'[r].pc # "idle"

\* C3: a request that arrives at an API entry point (passthrough,
\* /v1/chat/completions, /v1/models) while pendingSwitch or isAuthSwitching
\* is answered 503, changes neither activeRequestCount nor usageCount, and
\* no Relay Request frame is forwarded for it.
C3_GateRejects ==
  [][\A r \in Reqs :
       (Arrives(r) /\ (pendingSwitch \/ isAuthSwitching))
       => /\ res'[r].sentStatus = 503
          /\ hist'[r].forwarded = 0
          /\ activeRequestCount' = activeRequestCount
          /\ usageCount' = usageCount]_vars

\* C4: the response of a request is started at most once, and once its
\* status line is on the wire no later error, switch outcome or timeout
\* changes the status or starts a second response.
C4_ResponseStartedOnce ==
  [][\A r \in Reqs :
       /\ res'[r].starts <= 1
       /\ (req[r].pc # "done" /\ res[r].headersSent)
            => /\ res'[r].headersSent
               /\ res'[r].sentStatus = res[r].sentStatus
               /\ res'[r].starts = res[r].starts]_vars

\* An OpenAI non-stream request ended after a failed switch: the error chunk
\* had started the response with 200, and the 429 reply that followed was
\* held back.
C4_Witness ==
  \E r \in Reqs :
    /\ req[r].pc = "done" /\ req[r].kind = "oaiNon"
    /\ req[r].err.status = 429
    /\ res[r].starts = 1 /\ res[r].sentStatus = 200
    /\ res[r].writableEnded

\* The chunk data among what has been written to the client of slot r.
ChunkTokens == {ChunkData(i) : i \in 1..(MaxChunks + 1)}
Written(r) == SelectSeq(res[r].body, LAMBDA x : x \in ChunkTokens)
IsPrefix(a, b) == Len(a) <= Len(b) /\ a = SubSeq(b, 1, Len(a))

\* C5: in real streaming the chunk data written to the client is a prefix of
\* the chunk events the relay delivered for that request, in the same order
\* with none duplicated or reordered, and is the whole sequence once
\* STREAM_END has been reached.
C5_StreamIsPrefix ==
  \A r \in Reqs :
    req[r].kind = "real"
    => /\ IsPrefix(Written(r), hist[r].delivered)
       /\ relay[r].phase = "closed" => Written(r) = hist[r].delivered

\* A real-stream request that was served to its end with every chunk the
\* relay can send.
C5_Witness ==
  \E r \in Reqs :
    /\ req[r].kind = "real" /\ req[r].pc = "done"
    /\ relay[r].phase = "closed"
    /\ Len(hist[r].delivered) = MaxChunks
    /\ Written(r) = hist[r].delivered
    /\ res[r].writableEnded

\* C6: counting from usageCount = 0 after a rotation, pendingSwitch becomes
\* true exactly when the switchOnUses-th generative request is accepted and
\* is still false after the one before; while pendingSwitch is set no
\* further request is counted, and it is cleared only by a running switch.
C6_PendingAtNthUse ==
  [][/\ (usageCount' = usageCount + 1)
          => /\ ~pendingSwitch
             /\ usageCount < switchOnUses
                  => (pendingSwitch' <=> usageCount' = switchOnUses)
     /\ (~pendingSwitch /\ pendingSwitch')
          => usageCount' = usageCount + 1
     /\ (pendingSwitch /\ ~pendingSwitch')
          => switchOp.phase # "idle"]_vars

\* The switchOnUses-th request has just been accepted while another request
\* is in flight.
C6_Witness ==
  /\ pendingSwitch
  /\ usageCount = switchOnUses
  /\ activeRequestCount = 2
  /\ switchOp.phase = "idle"

\* The step in which the handler of slot r gives up on a relay error with an
\* immediate-switch status: in pseudo-stream mode after the last attempt, in
\* the other modes at once.
TerminalImmediateError(r) ==
  /\ Cur.req[r].pc = "first"
  /\ Cur.req[r].err = NoError
  /\ req'[r].err.status \in immediateSwitchStatusCodes

\* C7: a terminal relay error whose status is in immediateSwitchStatusCodes
\* starts a switch to the next credential during that request, in every
\* response mode (real, pseudo, non-stream, OpenAI) and even when
\* failureCount is below failureThreshold.
C7_ImmediateStatusSwitches ==
  [][\A r \in Reqs :
       (TerminalImmediateError(r) /\ ~isAuthSwitching)
       => /\ isAuthSwitching'
          /\ switchOp' = [phase |-> "switch", by |-> "request", r |-> r,
                          prev |-> currentAuthIndex,
                          target |-> getNextAuthIndex(State)]
          /\ req'[r].pc = "switch"
          /\ activeRequestCount' = activeRequestCount]_vars

\* A pseudo-stream request waits for the switch that its first 429 started,
\* with failureCount below the threshold.
C7_Witness ==
  \E r \in Reqs :
    /\ req[r].kind = "fake" /\ req[r].pc = "switch"
    /\ req[r].err.status = 429
    /\ failureCount < failureThreshold
    /\ switchOp.phase = "switch" /\ switchOp.r = r

\* C8: in pseudo-stream mode, after a relay error whose message contains
\* "aborted" no further Relay Request frame is forwarded for that request,
\* whatever maxRetries and the attempt number are.
C8_NoForwardAfterAbort ==
  [][\A r \in Reqs :
       (req[r].kind = "fake" /\ req[r].pc # "done" /\ hist[r].aborted)
       => hist'[r].forwarded = hist[r].forwarded]_vars

\* C9: for every accepted request, passthrough or OpenAI, whose client
\* closes the connection before the response has ended, exactly one
\* cancel_request frame with its id is sent over the relay, no retry is
\* forwarded afterwards, and failureCount is not changed by what the request
\* does after the cancellation.
C9_CloseCancelsOnce ==
  [][\A r \in Reqs :
       /\ (hist[r].accepted /\ ~res[r].closed /\ res'[r].closed
              /\ hasActiveConnections(State))
            => hist'[r].cancels = 1
       /\ (res[r].closed /\ req[r].pc # "done")
            => /\ hist'[r].cancels = hist[r].cancels
               /\ hist'[r].forwarded = hist[r].forwarded
               /\ (req'[r].pc = "done" /\ switchOp.phase = "idle")
                    => failureCount' = failureCount]_vars

\* C10: in pseudo-stream mode with maxRetries = k a request whose relay
\* answers are non-aborted errors is forwarded again up to k times, and the
\* failure is escalated to the rotation controller only after those retries:
\* at the escalation the frame has been forwarded k + 1 times.
C10_EscalationAfterRetries ==
  \A r \in Reqs :
    (req[r].kind = "fake" /\ req[r].err.message = "upstream")
    => hist[r].forwarded = maxRetries + 1

\* The step in which the grace timer fires: it was running, it no longer is,
\* and no connection was added.
TimerFired ==
  reconnectGraceTimer /\ ~reconnectGraceTimer' /\ connections' = connections

\* C11: a connection added while the grace timer runs cancels it: the step
\* leaves every queue and every waiting handler as they were, and since the
\* timer never runs while a connection exists it cannot fire (close the
\* queues, emit connectionLost) for a disconnect that was followed by a
\* reconnection.
C11_ReconnectCancelsTimer ==
  /\ [](connections > 0 => ~reconnectGraceTimer)
  /\ [][(reconnectGraceTimer /\ connections' > connections)
          => /\ ~reconnectGraceTimer'
             /\ messageQueues' = Cur.messageQueues
             /\ req' = Cur.req]_vars
  /\ [][TimerFired => connections = 0]_vars

\* A request whose relay connection went away with the browser context of a
\* switch is still waiting on its open queue after the new connection came.
C11_Witness ==
  \E r \in Reqs :
    /\ req[r].pc = "first" /\ hist[r].forwarded = 1
    /\ relay[r].phase = "idle"
    /\ messageQueues[r].state = "open"
    /\ connections > 0 /\ ~reconnectGraceTimer

\* C12: the grace timer starts only in a step that takes the number of relay
\* connections to zero; when it fires, every queue of the registry is closed
\* and removed, no handler is left waiting on one of them (its dequeue was
\* rejected), and the timer is off, so that connectionLost is emitted once
\* for the disconnect.
C12_TimerClosesQueues ==
  [][/\ (~reconnectGraceTimer /\ reconnectGraceTimer')
          => (connections > 0 /\ connections' = 0)
     /\ TimerFired
          => \A r \in Reqs :
               Cur.messageQueues[r].state = "open"
               => /\ messageQueues'[r].state # "open"
                  /\ req'[r].pc \notin {"first", "data", "end", "body"}]_vars

\* The timer fired under a request that was waiting for the relay: its queue
\* was closed by the registry and the request has ended.
C12_Witness ==
  \E r \in Reqs :
    /\ messageQueues[r].state = "closed"
    /\ req[r].pc = "done" /\ hist[r].forwarded > 0
    /\ res[r].writableEnded
    /\ connections = 0 /\ ~reconnectGraceTimer

\* Request r's handler was handed, in this step, the terminal error event of
\* an upstream failure delivered by the relay.
UpstreamErrorTo(r) ==
  /\ Cur.req[r].err = NoError
  /\ Cur.relay[r].phase = "pending" /\ relay'[r].phase = "idle"
  /\ req'[r].err.message = "upstream"

\* The step starts a rotation from _handleRequestFailureAndSwitch.
FailureSwitchStarts ==
  switchOp.phase = "idle" /\ switchOp'.phase = "switch" /\ switchOp'.by = "request"

\* C13: failureCount goes up, and a failure-triggered rotation starts, only in
\* a step in which the relay delivered the terminal error event of an upstream
\* failure: never for a queue closed by relay loss, a dequeue or attempt
\* timeout or a client cancellation, in any response mode.
C13_CountsUpstreamErrorsOnly ==
  [][(failureCount' > failureCount \/ FailureSwitchStarts)
       => \E r \in Reqs : UpstreamErrorTo(r)]_vars

\* The step ends a switch (with or without rollback); the finally of the
\* request that awaited it may start the deferred one at once.
SwitchEnds ==
  /\ switchOp.phase # "idle"
  /\ \/ switchOp'.phase = "idle"
     \/ switchOp'.phase = "switch" /\ switchOp'.by # switchOp.by

\* The relay delivered a non-error event of the response of request r in
\* this step.
SuccessEventTo(r) ==
  /\ relay'[r] # Cur.relay[r]
  /\ relay'[r].phase \in {"streaming", "closed"}

\* C14: failureCount returns to 0 only through a successful (non-error) relay
\* response handed to a request, or through the counter reset at the end of a
\* switch: nothing else resets it, in particular not an aborted request.
C14_ResetOnlyBySuccess ==
  [][(failureCount > 0 /\ failureCount' = 0)
       => (SwitchEnds \/ \E r \in Reqs : SuccessEventTo(r))]_vars

\* The step starts the deferred switch of _tryExecutePendingSwitch.
DeferredSwitchStarts ==
  /\ switchOp'.phase = "switch" /\ switchOp'.by = "deferred"
  /\ switchOp.by # "deferred"

\* C15: the deferred switch starts only with activeRequestCount = 0 and no
\* other switch running, and every request that was in flight when
\* pendingSwitch was set has completed by then.
C15_DeferredWaitsForRequests ==
  [][DeferredSwitchStarts
       => /\ activeRequestCount' = 0
          /\ switchOp.phase = "idle" \/ SwitchEnds
          /\ \A r \in Reqs : hist[r].early => req'[r].pc \in {"idle", "done"}]_vars

\* pendingSwitch is set, no counted request is in flight and no switch runs.
PendingIdle ==
  pendingSwitch /\ activeRequestCount = 0 /\ switchOp.phase = "idle"

\* Without the admin API nothing takes the server out of such a state: every
\* passthrough and chat request is turned away at the gate before it reaches
\* a finally, and only a finally tries the pending switch.
PendingIdleIsStable == [][PendingIdle => PendingIdle']_vars

\* C16: a pending switch is executed once the in-flight requests have
\* drained: the server is never left with pendingSwitch true,
\* activeRequestCount 0 and no switch in progress, the state in which the
\* acceptance gate stays closed.
C16_PendingSwitchExecutes == ~PendingIdle

\* switchAccount(target) of the running switch returned: the switch succeeded.
\* (A failed switch to an explicit index equal to the current one leaves the
\* same currentAuthIndex behind; that case is left out.)
SwitchSucceeds ==
  /\ switchOp.phase = "switch" /\ SwitchEnds
  /\ currentAuthIndex' = switchOp.target
  /\ switchOp.by = "specific" => switchOp.target # currentAuthIndex

\* C17: after a successful switch, whatever triggered it, failureCount and
\* usageCount are 0 and pendingSwitch is false.
C17_SwitchResetsAll ==
  [][SwitchSucceeds
       => failureCount' = 0 /\ usageCount' = 0 /\ ~pendingSwitch']_vars

\* C18: the request whose failure started a rotation causes no other one:
\* when its switch has ended and the request finalises, no second switch
\* starts, so the credential ends one step ahead and not two.
C18_OneRotationPerRequest ==
  [][(switchOp.by = "request" /\ SwitchEnds) => switchOp'.phase = "idle"]_vars

\* The browser operations in progress: the switch (or its rollback) and the
\* auto-recovery loads.
BrowserOps ==
  (IF switchOp.phase # "idle" THEN 1 ELSE 0)
    + Cardinality({r \in Reqs : req[r].pc = "recovering"})

\* C19: at most one browser operation (switch, rollback, auto-recovery load)
\* is in progress at any time.
C19_OneBrowserOperation == BrowserOps <= 1

\* The handler of request r asks for a failure switch in this step while
\* another switch is running.
BusyTrigger(r) ==
  /\ isAuthSwitching
  /\ Cur.req[r].err = NoError /\ req'[r].err # NoError
  /\ \/ req'[r].err.status \in immediateSwitchStatusCodes
     \/ failureCount' >= failureThreshold

\* C20: a switch asked for while a switch is in progress does nothing: the
\* running operation, the browser connection, currentAuthIndex, usageCount,
\* pendingSwitch, isAuthSwitching and isSystemBusy are as before; and the
\* only rotation that starts when the running one completes is the deferred
\* one of a pendingSwitch that was already set.
C20_TriggerWhileSwitchingIsNoOp ==
  [][/\ \A r \in Reqs :
          BusyTrigger(r)
          => /\ switchOp' = switchOp
             /\ connections' = connections
             /\ currentAuthIndex' = currentAuthIndex
             /\ usageCount' = usageCount
             /\ pendingSwitch' = pendingSwitch
             /\ isAuthSwitching' = isAuthSwitching
             /\ isSystemBusy' = isSystemBusy
     /\ (SwitchEnds /\ switchOp'.phase = "switch") => pendingSwitch]_vars

\* A request was refused its switch with 429 while the switch started by
\* another request was running.
C20_Witness ==
  \E r \in Reqs :
    /\ req[r].pc = "done" /\ req[r].err.status = 429
    /\ switchOp.phase # "idle" /\ switchOp.by = "request" /\ switchOp.r # r
    /\ isAuthSwitching

\* C21: a switch whose switchAccount(target) fails, to the next index or to an
\* explicit one, goes on to a rollback load of the previous index: the switch
\* proper ends without a rollback only by succeeding; and a rollback leaves
\* currentAuthIndex at the index that was active before the switch.
C21_FailedSwitchRollsBack ==
  [][/\ (switchOp.phase = "switch" /\ SwitchEnds
           /\ switchOp.target # currentAuthIndex)
          => currentAuthIndex' = switchOp.target
     /\ (switchOp.phase = "rollback" /\ SwitchEnds)
          => currentAuthIndex' = switchOp.prev]_vars

\* The state right after a switch and its rollback both failed: the request
\* whose immediate-status error asked for the switch has just ended, the
\* counters were not reset, no switch runs and the browser, closed by the
\* failed loads, has no relay connection.
AfterDoubleFailure ==
  /\ switchOp.phase = "idle" /\ ~isAuthSwitching
  /\ failureCount > 0 /\ connections = 0
  /\ \E r \in Reqs :
       req[r].pc = "done" /\ req[r].err.status \in immediateSwitchStatusCodes

\* C22: after a switch and its rollback have both failed the system is
\* unavailable: the API request that arrives next is not forwarded to the
\* relay, and the answer it gets is 503 (400 for a chat body that cannot be
\* translated).
C22_UnavailableAfterDoubleFailure ==
  [][AfterDoubleFailure
       => \A q \in Reqs :
            Arrives(q)
            => /\ hist'[q].forwarded = 0
               /\ req'[q].pc = "done" => res'[q].sentStatus \in {503, 400}]_vars

\* The auto-recovery load of request r ends in this step.
RecoveryEnds(r) == Cur.req[r].pc = "recovering" /\ req'[r].pc # "recovering"

\* C23: a passthrough request accepted without a relay connection starts one
\* recovery load and never a second one; when the load has ended and there is
\* still no connection, the request is answered 503, is not forwarded, and
\* activeRequestCount is taken back.
C23_RecoveryOnceThen503 ==
  [][\A r \in Reqs :
       /\ req'[r].pc = "recovering" => Cur.req[r].pc \in {"idle", "recovering"}
       /\ (RecoveryEnds(r) /\ connections = 0)
            => /\ res'[r].sentStatus = 503
               /\ hist'[r].forwarded = 0
               /\ activeRequestCount' = activeRequestCount - 1]_vars

\* C24: removeMessageQueue is idempotent: a second call for the same id gives
\* the state of the first, a call for an id that has no queue changes
\* nothing, the queue removed is closed and empty, and the other queues are
\* as they were.
C24_RemoveIsIdempotent ==
  \A r \in Reqs :
    LET once == removeMessageQueue(State, r)
        twice == removeMessageQueue(once, r)
    IN /\ twice = once
       /\ messageQueues[r].state # "open" => once = State
       /\ once.messageQueues[r].state # "open"
       /\ once.messageQueues[r].messages = <<>>
       /\ \A q \in Reqs \ {r} : once.messageQueues[q] = messageQueues[q]

\* The finally of a served request has removed its queue while the queue of
\* another request stays open with its handler waiting.
C24_Witness ==
  \E r, q \in Reqs :
    /\ r # q
    /\ req[r].pc = "done" /\ hist[r].forwarded > 0 /\ res[r].sentStatus = 200
    /\ messageQueues[r].state = "none"
    /\ messageQueues[q].state = "open" /\ req[q].pc \in {"first", "body"}

\* The request carries an allow-listed key in at least one location.
CarriesAllowedKey(h) ==
  \/ h[1] \in serverApiKeys
  \/ substring7(h[2]) \in serverApiKeys
  \/ h[3] \in serverApiKeys
  \/ h[4] \in serverApiKeys

\* C25: a request with an allow-listed API key in at least one of the four
\* locations is admitted whatever the other locations hold; a request with
\* an allow-listed key in none of them is answered 401 and reaches no
\* handler.
C25_AnyKeyLocationAdmits ==
  \A r \in Reqs :
    hist[r].keys # <<>>
    => IF CarriesAllowedKey(hist[r].keys)
       THEN res[r].sentStatus # 401
       ELSE /\ res[r].sentStatus = 401
            /\ req[r].kind = "none" /\ ~hist[r].accepted
            /\ hist[r].forwarded = 0

\* The concatenation of the texts of a sequence of texts.
RECURSIVE Concat(_)
Concat(ts) == IF ts = <<>> THEN <<>> ELSE Head(ts) \o Concat(Tail(ts))

TextOnly(d) ==
  LET c == parseGoogleChunk(d) IN
  c.candidate /\ \A i \in 1..Len(c.parts) : c.parts[i].kind = "text"

\* The texts of the parts of the Google chunk d, concatenated.
PartTexts(d) ==
  LET c == parseGoogleChunk(d) IN
  Concat([i \in 1..Len(c.parts) |-> c.parts[i].text])

\* The OpenAI chunks written to the client of slot r, by the Google chunk each
\* one translates.
Emitted(r) == SelectSeq(res[r].body, LAMBDA x : x \in GoogleChunks)

\* C26: for a streaming chat request whose Google chunks have text parts
\* only, the delta.content of the OpenAI chunks written, concatenated in
\* order, is the concatenation of the part texts of the chunks delivered; and
\* the chunks written are the chunks delivered less those with an empty
\* delta and no finishReason.
C26_TranslatedTextIsTheText ==
  \A r \in Reqs :
    req[r].kind = "oaiStream"
    => LET sent == hist[r].delivered
           out == Emitted(r)
           keep(d) == LET c == parseGoogleChunk(d)
                          o == translateGoogleToOpenAIStream(d)
                      IN ~(o.delta = NoDelta /\ c.finishReason = "")
       IN /\ out = SelectSeq(sent, keep)
          /\ (\A i \in 1..Len(sent) : TextOnly(sent[i]))
               => Concat([i \in 1..Len(out) |->
                            translateGoogleToOpenAIStream(out[i]).delta.content])
                  = Concat([i \in 1..Len(sent) |-> PartTexts(sent[i])])

\* A chat stream of a two-part text chunk and a chunk with an empty text was
\* served to its end: one OpenAI chunk was written, the other suppressed.
C26_Witness ==
  \E r \in Reqs :
    /\ req[r].kind = "oaiStream" /\ req[r].pc = "done"
    /\ relay[r].phase = "closed"
    /\ hist[r].delivered = <<"ab", "blank">>
    /\ Emitted(r) = <<"ab">>
    /\ res[r].writableEnded

\* C27: a terminal upstream error with a status outside
\* immediateSwitchStatusCodes raises failureCount by one; the rotation starts
\* in the step of the error that brings the count to failureThreshold, and in
\* no step of an error that leaves it below.
C27_SwitchAtThreshold ==
  [][\A r \in Reqs :
       (UpstreamErrorTo(r) /\ req'[r].err.status \notin immediateSwitchStatusCodes)
       => /\ failureCount' = failureCount + 1
          /\ failureCount + 1 < failureThreshold => ~FailureSwitchStarts
          /\ failureCount + 1 = failureThreshold => FailureSwitchStarts]_vars

\* The second of two requests failed with status 500 and the rotation its
\* failure started is running.
C27_Witness ==
  \E r \in Reqs :
    /\ req[r].pc = "switch" /\ req[r].err.status = 500
    /\ req[r].err.message = "upstream"
    /\ failureCount = failureThreshold
    /\ switchOp.phase = "switch" /\ switchOp.by = "request" /\ switchOp.r = r

\* The largest index a credential may have, and the most credentials found,
\* in the lists the next-index law is checked for.
MaxIndex == 4
MaxFound == 3

\* What _discoverAvailableIndices may find: up to MaxFound indices in any
\* order, with repetitions (AUTH_JSON_1 and AUTH_JSON_01 are both index 1).
FoundLists == UNION {[1..n -> 1..MaxIndex] : n \in 1..MaxFound}

\* The index reached from current by k next-index switches that succeed.
RECURSIVE Rotate(_, _, _)
Rotate(available, current, k) ==
  IF k = 0 THEN current
  ELSE Rotate(available, nextAuthIndexIn(available, current), k - 1)

\* The element following current in an ascending list: the least larger one,
\* or the least of all when there is none or current is not in the list.
Following(available, current) ==
  LET S == {available[i] : i \in 1..Len(available)}
      larger == {x \in S : x > current}
      least(T) == CHOOSE x \in T : \A y \in T : x <= y
  IN IF current \in S /\ larger # {} THEN least(larger) ELSE least(S)

NextIndexLaw ==
  \A found \in FoundLists :
    LET available == discoverAvailableIndices(found)
        n == Len(available)
        S == {available[i] : i \in 1..n}
    IN /\ \A i \in 1..(n - 1) : available[i] < available[i + 1]
       /\ \A current \in 0..(MaxIndex + 1) :
            nextAuthIndexIn(available, current) = Following(available, current)
       /\ \A start \in S :
            /\ Rotate(available, start, n) = start
            /\ {Rotate(available, start, k) : k \in 1..n} = S

\* The step starts a next-index switch.
NextIndexSwitchStarts ==
  /\ switchOp'.phase = "switch" /\ switchOp'.by # "specific"
  /\ switchOp.phase = "idle" \/ switchOp'.by # switchOp.by

\* C28: the target of a next-index switch is the element following
\* currentAuthIndex in the ascending availableIndices, wrapping at the end
\* (the first element for an index not in the list), and a successful switch
\* makes it current; over every list of up to MaxFound credentials, n
\* next-index switches from a credential visit each credential once and end
\* on the starting one.
C28_NextIndexIsSuccessor ==
  [][/\ NextIndexLaw
     /\ NextIndexSwitchStarts
          => /\ switchOp'.prev = currentAuthIndex'
             /\ switchOp'.target = Following(availableIndices, switchOp'.prev)
     /\ (switchOp.phase = "switch" /\ switchOp.by # "specific" /\ SwitchEnds
           /\ currentAuthIndex' # currentAuthIndex)
          => currentAuthIndex' = Following(availableIndices, currentAuthIndex)]_vars

\* A next-index switch from the last credential to the first is running, after
\* one from the first to the last succeeded.
C28_Witness ==
  /\ switchOp.phase = "switch" /\ switchOp.by = "manual"
  /\ switchOp.prev = availableIndices[Len(availableIndices)]
  /\ switchOp.target = availableIndices[1]
  /\ currentAuthIndex = switchOp.prev

\* C29: a frame changes nothing but the queue registered for its request_id,
\* to which its event (STREAM_END for stream_close) is enqueued; a frame that
\* does not parse, has no request_id, has an id without queue in the registry
\* or has an unknown event_type changes no queue.
C29_RoutedByRequestId ==
  \A f \in AllFrames :
    LET t == handleIncomingMessage(State, f)
        X == f.request_id
        e == IF f.event_type = "stream_close" THEN StreamEnd
             ELSE Msg(f.event_type, f.status, f.data, f.message)
    IN /\ [t EXCEPT !.messageQueues = messageQueues] = State
       /\ \A q \in Reqs : (~Routed(State, f) \/ q # X)
                            => t.messageQueues[q] = messageQueues[q]
       /\ Routed(State, f)
            => t.messageQueues[X] =
                 IF messageQueues[X].abandoned > 0
                 THEN [messageQueues[X] EXCEPT !.abandoned = @ - 1]
                 ELSE [messageQueues[X] EXCEPT !.messages = Append(@, e)]

\* Two requests are in flight; the chunk of one of them reached its client
\* while the other still waits for its first event on an empty queue.
C29_Witness ==
  \E r, q \in Reqs :
    /\ r # q
    /\ req[r].pc = "body" /\ hist[r].delivered = <<"c1">> /\ Written(r) = <<"c1">>
    /\ req[q].pc = "first" /\ hist[q].forwarded > 0
    /\ messageQueues[q].state = "open" /\ messageQueues[q].messages = <<>>
    /\ res[q].body = <<>>

\* The dequeue calls made so far on the queue q.
Issued(q) == 1..q.issued

\* C30: close passes "Queue closed" to every waiting dequeue and drops the
\* buffered messages; on a closed queue a dequeue fails at once with "Queue is
\* closed" and an enqueue changes nothing; and no dequeue call is ever settled
\* twice: a call waits with nothing passed to it, or has left the waiters with
\* exactly one message or error.
C30_CloseFailsWaitersOnce ==
  [][/\ \A w \in Issued(mq') :
          IF Has(mq'.waitingResolvers, w) THEN mq'.calls[w] = <<>>
          ELSE Len(mq'.calls[w]) = 1
     /\ (~mq.closed /\ mq'.closed)
          => /\ \A w \in Issued(mq) :
                  Has(mq.waitingResolvers, w) => mq'.calls[w] = <<"Queue closed">>
             /\ mq'.waitingResolvers = <<>> /\ mq'.messages = <<>>
     /\ mq.closed
          => /\ mq'.closed /\ mq'.messages = <<>> /\ mq'.waitingResolvers = <<>>
             /\ \A w \in Issued(mq) : mq'.calls[w] = mq.calls[w]
             /\ \A w \in Issued(mq') \ Issued(mq) : mq'.calls[w] = <<"Queue is closed">>]_vars

\* A queue was closed with a dequeue waiting, after another dequeue got a
\* message and a third one timed out; a dequeue and an enqueue came later.
C30_Witness ==
  /\ mq.closed /\ mq.enqueued = MaxEnqueues
  /\ \E a, b, c, d \in Issued(mq) :
       /\ a < b /\ b < c /\ c < d
       /\ mq.calls[a] = <<"Queue timeout">>
       /\ mq.calls[b] \in {<<m>> : m \in QueueMessages}
       /\ mq.calls[c] = <<"Queue closed">>
       /\ mq.calls[d] = <<"Queue is closed">>
  /\ mq.timers # {}

InBody(r, x) == \E i \in 1..Len(res[r].body) : res[r].body[i] = x

\* C31: a request that ended on a terminal upstream error, whose client is
\* still connected, was answered with the upstream status in an HTTP error
\* response, or with a stream that holds an error chunk.
C31_ErrorReachesClient ==
  \A r \in Reqs :
    (req[r].pc = "done" /\ req[r].err.message = "upstream" /\ ~res[r].closed)
    => \/ res[r].sentStatus = req[r].err.status /\ InBody(r, "json")
       \/ InBody(r, "error")

\* The timer of the pending dequeue of request r fired in this step: the
\* handler, which waited on its open queue, has ended although neither the
\* relay nor the grace timer did anything.
QueueTimeoutEnds(r) ==
  /\ Waiting(Cur, r) /\ ~(Cur.req[r].kind = "fake" /\ Cur.req[r].pc = "first")
  /\ Cur.messageQueues[r].state = "open"
  /\ req'[r].pc = "done"
  /\ relay'[r] = Cur.relay[r]
  /\ reconnectGraceTimer' = reconnectGraceTimer /\ connections' = connections

\* C32: a dequeue timeout ends the request; the client gets HTTP 504 when the
\* response had not started, and otherwise the stream written so far, ended.
C32_QueueTimeoutAnswers504 ==
  [][\A r \in Reqs :
       QueueTimeoutEnds(r)
       => IF Cur.res[r].headersSent
          THEN res'[r].writableEnded /\ res'[r].body = Cur.res[r].body
          ELSE res'[r].sentStatus = 504 /\ res'[r].writableEnded]_vars

\* Request r is in flight: accepted and not finalised.
InFlight(r) == req[r].pc \notin {"idle", "done"}

\* C33: only requests in flight have a queue in the registry, and a frame
\* with the id of a request that is not in flight changes nothing.
C33_QueuesOfRequestsInFlight ==
  \A r \in Reqs :
    /\ messageQueues[r].state = "open" => InFlight(r)
    /\ ~InFlight(r)
         => \A f \in AllFrames :
              f.request_id = r => handleIncomingMessage(State, f) = State

\* A forwarded request has finalised on an error path and its queue is gone.
C33_Witness ==
  \E r \in Reqs :
    /\ req[r].pc = "done" /\ req[r].err.message = "upstream"
    /\ hist[r].accepted /\ hist[r].forwarded > 0
    /\ res[r].writableEnded
    /\ messageQueues[r].state = "none"

\* Request r was answered by the relay with response_headers, one chunk
\* holding the buffered payload, and stream_close, and its handler reached the
\* [DONE] frame.
PseudoStreamSuccess(r) ==
  /\ req[r].kind = "fake" /\ InBody(r, "[DONE]")
  /\ relay[r].phase = "closed" /\ Len(hist[r].delivered) = 1

\* C34: a successful pseudo-stream response is the frame of the buffered
\* payload, then the [DONE] frame, and is ended; and a pseudo-stream response
\* is ended only by the end of its handler, which stops the keep-alive
\* interval, so that nothing is written after the end.
C34_PseudoStreamFrames ==
  \A r \in Reqs :
    /\ (req[r].kind = "fake" /\ res[r].writableEnded) => req[r].pc = "done"
    /\ PseudoStreamSuccess(r)
         => /\ res[r].body = <<hist[r].delivered[1], "[DONE]">>
            /\ res[r].writableEnded /\ res[r].sentStatus = 200

\* C35: isSystemBusy is true for as long as a switch or its rollback runs
\* (isAuthSwitching) and for as long as an auto-recovery load runs.
C35_BusyDuringBrowserOperations ==
  /\ isAuthSwitching => isSystemBusy
  /\ (\E r \in Reqs : req[r].pc = "recovering") => isSystemBusy

\* A Relay Request frame of request r is sent in this step.
Forwards(r) == hist'[r].forwarded > Cur.hist[r].forwarded

\* C36: in a step taken while a switch runs, and which leaves it running, no
\* Relay Request frame is sent.
C36_NoForwardDuringSwitch ==
  [][(isAuthSwitching /\ isAuthSwitching') => \A r \in Reqs : ~Forwards(r)]_vars

\* The relay delivered an event of request r to its open queue in this step.
EventTo(r) ==
  /\ Cur.messageQueues[r].state = "open"
  /\ Cur.relay[r].phase \in {"pending", "streaming"}
  /\ relay'[r] # Cur.relay[r]
  /\ ~Forwards(r)

\* C37: an event delivered to the open queue of a request goes to the buffer
\* or to the pending dequeue of its handler, never to a dequeue call whose
\* caller has stopped listening.
C37_NoEventToAbandonedWaiter ==
  [][\A r \in Reqs :
       (EventTo(r) /\ messageQueues'[r].state = "open")
       => messageQueues'[r].abandoned >= Cur.messageQueues[r].abandoned]_vars

\* C38: after startup the credential in use is one of the configured ones,
\* whatever switches, rollbacks and recoveries have failed and whatever target
\* a manual switch named.
C38_CurrentIndexIsAvailable ==
  IndexOf(availableIndices, currentAuthIndex) > 0

\* A deferred switch and its rollback have both failed (the counter is still at
\* its limit with no switch pending), after an earlier switch had moved the
\* server to the second credential.
C38_Witness ==
  /\ usageCount >= switchOnUses /\ ~pendingSwitch /\ ~isAuthSwitching
  /\ currentAuthIndex = availableIndices[2]

\* C39: with switchOnUses = N > 0 the usage counter never exceeds N.
C39_UsageCountWithinLimit ==
  switchOnUses > 0 => usageCount <= switchOnUses

\* One request at a time, pseudo-stream and OpenAI routes, with the relay and
\* its socket free to act or to stay silent.
NextLive ==
  \/ \E r \in Serial : ArrivePassthrough(r)
  \/ \E r \in Serial : ArriveOpenAI(r)
  \/ \E r \in Serial : RecoveryDone(r)
  \/ \E r \in Serial : QueueTimeout(r)
  \/ \E r \in Serial : AttemptTimeout(r)
  \/ \E r \in Serial : RetryDelayDone(r)
  \/ \E r \in Serial : RelayError(r)
  \/ \E r \in Serial : RelayHeaders(r)
  \/ \E r \in Serial : RelayChunk(r)
  \/ \E r \in Serial : RelayStreamClose(r)
  \/ AddConnection
  \/ RemoveConnection
  \/ GraceTimerFires
  \/ SwitchDone
  \/ RollbackDone

\* The timers of the event loop fire: the timer of a pending dequeue (lines
\* 465-485), the 300 s attempt timer and the retry delay of the pseudo-stream
\* loop (1090-1107).
TimersFire ==
  /\ \A r \in Serial : WF_vars(QueueTimeout(r))
  /\ \A r \in Serial : WF_vars(AttemptTimeout(r))
  /\ \A r \in Serial : WF_vars(RetryDelayDone(r))

\* The loads of a credential (lines 209-389) return or throw.
BrowserOperationsReturn ==
  /\ \A r \in Serial : WF_vars(RecoveryDone(r))
  /\ WF_vars(SwitchDone)
  /\ WF_vars(RollbackDone)

InitFake == Init /\ streamingMode = "fake"

\* The runs in which the timers fire and the browser operations return; the
\* relay, the client and the relay socket may act or not.
SpecLive == InitFake /\ [][NextLive]_vars /\ TimersFire /\ BrowserOperationsReturn

\* C40: a request in flight eventually finalises: its handler has run its
\* finally block (response ended, queue removed, counter decremented).  The attempt timer of the model stops at failureCount =
\* MaxCount, so the request is taken below that bound.
Finalised(r) ==
  /\ req[r].pc = "done" /\ res[r].writableEnded
  /\ messageQueues[r].state # "open" /\ activeRequestCount = 0

====
